---- MODULE Spec2Model ----
(***************************************************************************)
(* Model of OstreeRepoFinder (libostree): the resolve_all aggregator of    *)
(* ostree-repo-finder.c, the GTask plumbing it relies on, and the          *)
(* OstreeRepoFinderResult comparator.                                      *)
(*                                                                         *)
(* Strings are sequences of byte values (<<97>> is "a").  A Result is a    *)
(* record [remote |-> [name |-> s], priority |-> p,                        *)
(* ref_to_checksum |-> set of ref names (the keys of the hash table),      *)
(* summary_last_modified |-> t], t a guint64 held as four 16-bit limbs.    *)
(***************************************************************************)
EXTENDS Integers, Sequences, FiniteSets, TLC

\* ---------------------------------------------------------------- bounds
\* Largest number of finders handed to one resolve_all call.
MaxFinders == 2
\* Cap on the total number of Results the finders of one call produce.
MaxResults == 3
\* Comparator inputs: timestamps 0..MaxTimestamp, 1..MaxRefs refs.
MaxTimestamp == 2
MaxRefs == 3
\* The same cap in the runs that check termination (which no Result decides).
MaxLiveResults == 1
\* Largest number of remotes in the repository's configuration, and of
\* volumes the volume monitor lists.
MaxRemotes == 2
MaxVolumes == 2
\* Longest string given to is_valid_ref_name.
MaxNameLen == 2

\* ------------------------------------------------------- program constants
\* priority of OstreeRepoFinderMount / OstreeRepoFinderConfig results
MountPriority == 50
ConfigPriority == 100

\* A GPtrArray pointer: NULL, or an array holding the sequence pdata.
NULL == [is_null |-> TRUE, pdata |-> <<>>]
GPtrArray(s) == [is_null |-> FALSE, pdata |-> s]

\* ---------------------------------------------------------------- guint64
\* A guint64 is held as four 16-bit limbs, least significant first, so that
\* its arithmetic keeps the width of the C types.
Limb == 65536
guint64(n) == <<n % Limb, (n \div Limb) % Limb, 0, 0>>

\* x < y as unsigned 64-bit numbers.
guint64_lt(x, y) ==
  \/ x[4] < y[4]
  \/ x[4] = y[4] /\ x[3] < y[3]
  \/ x[4] = y[4] /\ x[3] = y[3] /\ x[2] < y[2]
  \/ x[4] = y[4] /\ x[3] = y[3] /\ x[2] = y[2] /\ x[1] < y[1]

\* x - y in guint64 arithmetic (modulo 2^64), limb by limb with borrow.
guint64_sub(x, y) ==
  LET d1 == x[1] - y[1]
      d2 == x[2] - y[2] - (IF d1 < 0 THEN 1 ELSE 0)
      d3 == x[3] - y[3] - (IF d2 < 0 THEN 1 ELSE 0)
      d4 == x[4] - y[4] - (IF d3 < 0 THEN 1 ELSE 0)
  IN <<d1 % Limb, d2 % Limb, d3 % Limb, d4 % Limb>>

\* The conversion of a guint64 to the gint a function returns: the low 32
\* bits, read as a two's complement number.
gint_from_guint64(x) ==
  IF x[2] >= Limb \div 2 THEN (x[2] - Limb) * Limb + x[1]
                          ELSE x[2] * Limb + x[1]

\* ------------------------------------------------------------- Results
RefName(j) == <<96 + j>>
RefPrefix(k) == {RefName(j) : j \in 1..k}
RemoteNames == {<<97>>, <<98>>}

OstreeRepoFinderResult(name, priority, refs, slm) ==
  [remote |-> [name |-> name], priority |-> priority,
   ref_to_checksum |-> refs, summary_last_modified |-> slm]

\* Every Result the comparator is exercised on.
ResultSet ==
  {OstreeRepoFinderResult(nm, p, RefPrefix(k), guint64(t)) :
     nm \in RemoteNames, p \in {MountPriority, ConfigPriority},
     k \in 1..MaxRefs, t \in 0..MaxTimestamp}

\* Timestamps at and beyond the ends of the gint range: 2^31, 2^31 + 1, 2^32,
\* 2^32 + 1 and 2^64 - 1.
WideTimestamps ==
  { <<0, Limb \div 2, 0, 0>>, <<1, Limb \div 2, 0, 0>>,
    <<0, 0, 1, 0>>, <<1, 0, 1, 0>>,
    <<Limb - 1, Limb - 1, Limb - 1, Limb - 1>> }

\* The Results of ResultSet and the same with the wide timestamps.
WideResultSet ==
  {OstreeRepoFinderResult(nm, p, RefPrefix(k), t) :
     nm \in RemoteNames, p \in {MountPriority, ConfigPriority},
     k \in 1..MaxRefs,
     t \in {guint64(n) : n \in 0..MaxTimestamp} \cup WideTimestamps}

\* strcmp() as g_strcmp0 calls it for two non-NULL strings: the difference of
\* the first pair of differing bytes, the terminating NUL counting as 0.
RECURSIVE g_strcmp0(_, _)
g_strcmp0(str1, str2) ==
  IF str1 = <<>> /\ str2 = <<>> THEN 0
  ELSE IF str1 = <<>> THEN 0 - str2[1]
  ELSE IF str2 = <<>> THEN str1[1]
  ELSE IF str1[1] # str2[1] THEN str1[1] - str2[1]
  ELSE g_strcmp0(Tail(str1), Tail(str2))

g_hash_table_size(t) == Cardinality(t)

\* ------------------------------------------------------------- validation
\* g_str_is_ascii: no byte of the string has its top bit set.
g_str_is_ascii(str) == \A k \in 1..Len(str) : str[k] < 128

\* is_valid_ref_name, for a non-NULL string (a sequence of non-zero bytes).
is_valid_ref_name(name) == name # <<>> /\ g_str_is_ascii(name)

\* Variant: only the first element of the array is validated.
is_valid_ref_array_first_only(array) ==
  array # <<>> /\ is_valid_ref_name(array[1])

\* is_valid_ref_array: the NULL-terminated array is the sequence of its
\* elements; a NULL array and an array holding only the terminator are both
\* the empty sequence.
is_valid_ref_array(array) ==
  array # <<>> /\ \A k \in 1..Len(array) : is_valid_ref_name(array[k])

is_valid_checksum(checksum) == TRUE

\* is_valid_ref_map, on the keys of the table (the checksums are not
\* modelled: is_valid_checksum accepts all of them).
is_valid_ref_map(ref_to_checksum) ==
  /\ g_hash_table_size(ref_to_checksum) # 0
  /\ \A ref \in ref_to_checksum : is_valid_ref_name(ref) /\ is_valid_checksum(ref)

\* What ostree_repo_finder_result_new returns when a g_return_val_if_fail
\* check fails: NULL, which has no refs.
NullResult == OstreeRepoFinderResult(<<>>, 0, {}, guint64(0))

\* ostree_repo_finder_result_new: the refs a finder hands over become the
\* keys of ref_to_checksum.
ostree_repo_finder_result_new(name, priority, ref_to_checksum, slm) ==
  IF is_valid_ref_map(ref_to_checksum)
    THEN OstreeRepoFinderResult(name, priority, ref_to_checksum, slm)
    ELSE NullResult

\* Variant: the priority key compared the other way round.
compare_priority_reversed(a, b) ==
  IF a.priority # b.priority
    THEN b.priority - a.priority
  ELSE IF a.summary_last_modified # <<0, 0, 0, 0>> /\ b.summary_last_modified # <<0, 0, 0, 0>>
          /\ a.summary_last_modified # b.summary_last_modified
    THEN gint_from_guint64(guint64_sub(a.summary_last_modified, b.summary_last_modified))
  ELSE LET a_n_refs == g_hash_table_size(a.ref_to_checksum)
           b_n_refs == g_hash_table_size(b.ref_to_checksum)
       IN IF a_n_refs # b_n_refs
            THEN a_n_refs - b_n_refs
            ELSE g_strcmp0(a.remote.name, b.remote.name)

\* Variant: the ref-count key compared the other way round.
compare_refs_reversed(a, b) ==
  IF a.priority # b.priority
    THEN a.priority - b.priority
  ELSE IF a.summary_last_modified # <<0, 0, 0, 0>> /\ b.summary_last_modified # <<0, 0, 0, 0>>
          /\ a.summary_last_modified # b.summary_last_modified
    THEN gint_from_guint64(guint64_sub(a.summary_last_modified, b.summary_last_modified))
  ELSE LET a_n_refs == g_hash_table_size(a.ref_to_checksum)
           b_n_refs == g_hash_table_size(b.ref_to_checksum)
       IN IF a_n_refs # b_n_refs
            THEN b_n_refs - a_n_refs
            ELSE g_strcmp0(a.remote.name, b.remote.name)

\* The comparator, key by key as the code returns.  The timestamp difference
\* is a guint64 converted to the gint return type; the priority and ref-count
\* differences are exact for the values of this model (all far below 2^31).
ostree_repo_finder_result_compare(a, b) ==
  IF a.priority # b.priority
    THEN a.priority - b.priority
  ELSE IF a.summary_last_modified # <<0, 0, 0, 0>> /\ b.summary_last_modified # <<0, 0, 0, 0>>
          /\ a.summary_last_modified # b.summary_last_modified
    THEN gint_from_guint64(guint64_sub(a.summary_last_modified, b.summary_last_modified))
  ELSE LET a_n_refs == g_hash_table_size(a.ref_to_checksum)
           b_n_refs == g_hash_table_size(b.ref_to_checksum)
       IN IF a_n_refs # b_n_refs
            THEN a_n_refs - b_n_refs
            ELSE g_strcmp0(a.remote.name, b.remote.name)

sort_results_cb(a, b) == ostree_repo_finder_result_compare(a, b)

\* The ends of the range of a gint.
MaxGint == 2147483647
MinGint == -MaxGint - 1

\* x - y lies outside the range of a gint.
gint_sub_overflows(x, y) ==
  \/ y < 0 /\ x > MaxGint + y
  \/ y > 0 /\ x < MinGint + y

\* The values the subtraction x - y of two gints can give.  In range it is the
\* difference.  Out of range the operation is undefined in C: builds that wrap
\* give the difference reduced modulo 2^32 into the gint range, and nothing
\* keeps another build from giving any other gint (here the two ends of the
\* range and the values around zero).
gint_sub(x, y) ==
  IF ~gint_sub_overflows(x, y) THEN {x - y}
  ELSE {IF y < 0 THEN ((x + MinGint) - y) + MinGint
                 ELSE ((x - MinGint) - y) - MinGint}
       \cup {MinGint, -1, 0, 1, MaxGint}

\* The values the comparator can return for Results whose priorities range
\* over all of gint: what a->priority - b->priority can give where that
\* difference is out of range, and the comparator's value everywhere else.
ostree_repo_finder_result_compare_returns(a, b) ==
  IF a.priority # b.priority /\ gint_sub_overflows(a.priority, b.priority)
    THEN gint_sub(a.priority, b.priority)
    ELSE {ostree_repo_finder_result_compare(a, b)}

\* ---------------------------------------------------------------- sorting
Range(s) == {s[k] : k \in 1..Len(s)}

\* All rearrangements of the array s.
Rearrangements(s) ==
  {[k \in 1..Len(s) |-> s[f[k]]] : f \in Permutations(1..Len(s))}

IsSorted(s) ==
  \A k \in 1..Len(s), l \in 1..Len(s) : k < l => sort_results_cb(s[k], s[l]) <= 0

\* qsort()'s requirement on its comparison function: over the elements of the
\* array its results define a total ordering (consistent signs, transitive).
DefinesTotalOrdering(s) ==
  /\ \A x, y \in Range(s) :
        /\ (sort_results_cb(x, y) < 0) = (sort_results_cb(y, x) > 0)
        /\ (sort_results_cb(x, y) = 0) = (sort_results_cb(y, x) = 0)
  /\ \A x, y, z \in Range(s) :
        (sort_results_cb(x, y) <= 0 /\ sort_results_cb(y, z) <= 0)
          => sort_results_cb(x, z) <= 0

\* Variant: the array is left in the order it was filled in.
g_ptr_array_sort_left_unsorted(array) == {array}

\* g_ptr_array_sort (array, sort_results_cb) is qsort() on the pointer array.
\* The set of arrays it can leave: with a comparator that orders the elements
\* consistently, any sorted rearrangement (elements comparing equal land in an
\* unspecified order); with one that does not, the call is undefined and any
\* rearrangement can come out.  A NULL array is left alone.
g_ptr_array_sort(array) ==
  IF array.is_null THEN {NULL}
  ELSE IF DefinesTotalOrdering(array.pdata)
    THEN {GPtrArray(s) : s \in {r \in Rearrangements(array.pdata) : IsSorted(r)}}
    ELSE {GPtrArray(s) : s \in Rearrangements(array.pdata)}

\* ------------------------------------------------------------------ GTask
\* A GTask: how often g_task_return_*() was called on it, and what with.
GTaskNew == [n_returns |-> 0, error |-> FALSE, value |-> NULL]
g_task_return_pointer(t, v) ==
  [n_returns |-> t.n_returns + 1, error |-> FALSE, value |-> v]
g_task_return_error(t) ==
  [n_returns |-> t.n_returns + 1, error |-> TRUE, value |-> NULL]

\* g_task_propagate_pointer() on a task created with the call's cancellable:
\* a cancelled cancellable turns whatever was returned into a Cancelled error.
g_task_propagate_pointer(t, is_cancelled) ==
  IF is_cancelled THEN [kind |-> "error", code |-> "Cancelled", results |-> NULL]
  ELSE IF t.error THEN [kind |-> "error", code |-> "Failed", results |-> NULL]
  ELSE [kind |-> "ok", code |-> "None", results |-> t.value]

\* iface->resolve_finish of a finder (both finders of the library propagate
\* their own GTask).
resolve_finish(t, is_cancelled) == g_task_propagate_pointer(t, is_cancelled)

\* Variant: the task's value is handed out without looking at the cancellable.
ostree_repo_finder_resolve_all_finish_unchecked(t, is_cancelled) ==
  g_task_propagate_pointer(t, FALSE)

ostree_repo_finder_resolve_all_finish(t, is_cancelled) ==
  g_task_propagate_pointer(t, is_cancelled)

\* Variant: the task's value is handed out without looking at the cancellable.
ostree_repo_finder_resolve_finish_unchecked(t, is_cancelled) ==
  g_task_propagate_pointer(t, FALSE)

ostree_repo_finder_resolve_finish(t, is_cancelled) ==
  g_task_propagate_pointer(t, is_cancelled)

\* Variant: a finder's error is dropped and an empty array returned instead.
resolve_cb_error_swallowed(t, ret) ==
  IF ret.kind = "error" THEN g_task_return_pointer(t, GPtrArray(<<>>))
                        ELSE g_task_return_pointer(t, ret.results)

\* resolve_cb: the finder's error or its array is returned on the task of
\* the call, the array as the finder left it.
resolve_cb(t, ret) ==
  IF ret.kind = "error" THEN g_task_return_error(t)
                        ELSE g_task_return_pointer(t, ret.results)

\* ------------------------------------------------------------- resolve_all
\* ResolveAllData
ResolveAllData(n, arr) == [n_finders_pending |-> n, results |-> arr]

\* Variant: the copy loop stops one element early.
array_concatenate_steal_short(array, to_concatenate) ==
  GPtrArray(array.pdata
            \o SubSeq(to_concatenate.pdata, 1, Len(to_concatenate.pdata) - 1))

array_concatenate_steal(array, to_concatenate) ==
  GPtrArray(array.pdata \o to_concatenate.pdata)

\* Variant: returns the result as soon as at most one call is outstanding.
resolve_all_finished_one_early(d, t) ==
  LET n == d.n_finders_pending - 1
  IN IF n <= 1
       THEN {[data |-> ResolveAllData(n, NULL),
              task |-> g_task_return_pointer(t, sorted)] :
                sorted \in g_ptr_array_sort(d.results)}
       ELSE {[data |-> ResolveAllData(n, d.results), task |-> t]}

\* Variant: tests the count before decrementing it.
resolve_all_finished_one_late(d, t) ==
  LET n == d.n_finders_pending - 1
  IN IF d.n_finders_pending = 0
       THEN {[data |-> ResolveAllData(n, NULL),
              task |-> g_task_return_pointer(t, sorted)] :
                sorted \in g_ptr_array_sort(d.results)}
       ELSE {[data |-> ResolveAllData(n, d.results), task |-> t]}

\* resolve_all_finished_one (task): the set of (data, task) pairs it can leave.
resolve_all_finished_one(d, t) ==
  LET n == d.n_finders_pending - 1
  IN IF n = 0
       THEN {[data |-> ResolveAllData(n, NULL),
              task |-> g_task_return_pointer(t, sorted)] :
                sorted \in g_ptr_array_sort(d.results)}
       ELSE {[data |-> ResolveAllData(n, d.results), task |-> t]}

\* Variant: returns on a finder's error without resolve_all_finished_one.
resolve_all_cb_error_not_counted(d, t, ret) ==
  IF ret.kind = "error"
    THEN {[data |-> d, task |-> t]}
    ELSE resolve_all_finished_one(
           ResolveAllData(d.n_finders_pending,
                          array_concatenate_steal(d.results, ret.results)), t)

\* Variant: a finder's error empties the accumulator.
resolve_all_cb_error_resets(d, t, ret) ==
  IF ret.kind = "error"
    THEN resolve_all_finished_one(ResolveAllData(d.n_finders_pending, GPtrArray(<<>>)), t)
    ELSE resolve_all_finished_one(
           ResolveAllData(d.n_finders_pending,
                          array_concatenate_steal(d.results, ret.results)), t)

\* Variant: a finder's error is returned as the error of the whole call (as
\* resolve_cb does for a single finder).
resolve_all_cb_error_propagated(d, t, ret) ==
  IF ret.kind = "error"
    THEN {[data |-> ResolveAllData(d.n_finders_pending - 1, d.results),
           task |-> g_task_return_error(t)]}
    ELSE resolve_all_finished_one(
           ResolveAllData(d.n_finders_pending,
                          array_concatenate_steal(d.results, ret.results)), t)

\* Variant: a finder's error ends the call at once with an empty result.
resolve_all_cb_error_aborts(d, t, ret) ==
  IF ret.kind = "error"
    THEN {[data |-> ResolveAllData(0, NULL),
           task |-> g_task_return_pointer(t, GPtrArray(<<>>))]}
    ELSE resolve_all_finished_one(
           ResolveAllData(d.n_finders_pending,
                          array_concatenate_steal(d.results, ret.results)), t)

\* resolve_all_cb: ret is what iface->resolve_finish gave.
resolve_all_cb(d, t, ret) ==
  IF ret.kind = "error"
    THEN resolve_all_finished_one(d, t)
    ELSE resolve_all_finished_one(
           ResolveAllData(d.n_finders_pending,
                          array_concatenate_steal(d.results, ret.results)), t)

\* ------------------------------------------------- the finders of the library
\* The orders in which iterating a GHashTable can visit its keys.
HashTableIterOrders(keys) ==
  {o \in [1..Cardinality(keys) -> keys] : \A k, l \in DOMAIN o : o[k] = o[l] => k = l}

\* A remote of the repository's configuration, as OstreeRepoFinderConfig sees
\* it: its name, whether ostree_repo_remote_list_refs succeeds and the refs it
\* then lists, and whether _ostree_repo_get_remote_inherited finds it.
ConfiguredRemote(name, refs_ok, remote_refs, inherited_ok) ==
  [name |-> name, refs_ok |-> refs_ok, remote_refs |-> remote_refs,
   inherited_ok |-> inherited_ok]

RemoteNamed(remote_list, name) ==
  remote_list[CHOOSE k \in 1..Len(remote_list) : remote_list[k].name = name]

\* Variant: a remote that lists any of the requested refs gets all of them.
config_supported_refs_whole_request(remote, ref_list) ==
  IF remote.refs_ok /\ \E k \in 1..Len(ref_list) : ref_list[k] \in remote.remote_refs
    THEN ref_list
    ELSE <<>>

\* The inner loop over refs[j] for one remote: the requested refs the remote
\* lists, in the order requested; none if its ref list cannot be loaded.
config_supported_refs(remote, ref_list) ==
  IF remote.refs_ok
    THEN SelectSeq(ref_list, LAMBDA r : r \in remote.remote_refs)
    ELSE <<>>

\* Variant: the entry of a remote keeps only the first requested ref found.
config_repo_name_to_refs_first_ref(remote_list, ref_list) ==
  [name \in {remote_list[k].name :
               k \in {l \in 1..Len(remote_list) :
                        config_supported_refs(remote_list[l], ref_list) # <<>>}}
     |-> <<Head(config_supported_refs(RemoteNamed(remote_list, name), ref_list))>>]

\* Variant: the table entry of a remote is created before its refs are matched.
config_repo_name_to_refs_eager(remote_list, ref_list) ==
  [name \in {remote_list[k].name :
               k \in {l \in 1..Len(remote_list) : remote_list[l].refs_ok}}
     |-> config_supported_refs(RemoteNamed(remote_list, name), ref_list)]

\* repo_name_to_refs after the loop over the remotes: an entry exists for
\* exactly the remotes for which a requested ref was found.
config_repo_name_to_refs(remote_list, ref_list) ==
  [name \in {remote_list[k].name :
               k \in {l \in 1..Len(remote_list) :
                        config_supported_refs(remote_list[l], ref_list) # <<>>}}
     |-> config_supported_refs(RemoteNamed(remote_list, name), ref_list)]

\* The aggregation loop, visiting the table in the given order.
RECURSIVE config_aggregate(_, _, _)
config_aggregate(order, repo_name_to_refs, remote_list) ==
  IF order = <<>> THEN <<>>
  ELSE (IF RemoteNamed(remote_list, Head(order)).inherited_ok
          THEN <<ostree_repo_finder_result_new(
                   Head(order), ConfigPriority,
                   Range(repo_name_to_refs[Head(order)]), guint64(0))>>
          ELSE <<>>)
       \o config_aggregate(Tail(order), repo_name_to_refs, remote_list)

\* Variant: a remote whose refs cannot be loaded ends the search with nothing.
config_resolve_async_gives_up(remote_list, ref_list) ==
  IF \E k \in 1..Len(remote_list) : ~remote_list[k].refs_ok
    THEN {GPtrArray(<<>>)}
    ELSE {GPtrArray(config_aggregate(order, config_repo_name_to_refs(remote_list, ref_list),
                                     remote_list)) :
            order \in HashTableIterOrders(
                        DOMAIN config_repo_name_to_refs(remote_list, ref_list))}

\* ostree_repo_finder_config_resolve_async: the arrays its GTask can return.
ostree_repo_finder_config_resolve_async(remote_list, ref_list) ==
  {GPtrArray(config_aggregate(order, config_repo_name_to_refs(remote_list, ref_list),
                              remote_list)) :
     order \in HashTableIterOrders(DOMAIN config_repo_name_to_refs(remote_list, ref_list))}

\* What fstatat() and realpath() give for <mount root>/.ostree/repos/<ref>.
RepoDirEntry(stat_ok, is_dir, st_dev, canonical) ==
  [stat_ok |-> stat_ok, is_dir |-> is_dir, st_dev |-> st_dev, canonical |-> canonical]

NoEntry == RepoDirEntry(FALSE, FALSE, 0, <<>>)

\* A GVolume as OstreeRepoFinderMount probes it.
GVolume(drive, mount, removable, root_opens, repos_opens, fstat_ok, st_dev, entries) ==
  [drive |-> drive, mount |-> mount, removable |-> removable,
   root_opens |-> root_opens, repos_opens |-> repos_opens, fstat_ok |-> fstat_ok,
   st_dev |-> st_dev, entries |-> entries]

VolumeEntry(volume, ref) ==
  IF ref \in DOMAIN volume.entries THEN volume.entries[ref] ELSE NoEntry

\* g_strconcat ("file://", canonical_repo_dir_path, NULL)
FileUri(canonical) == <<102, 105, 108, 101, 58, 47, 47>> \o canonical

\* Variant: the drive is not asked whether it is removable.
mount_volume_usable_any_drive(volume) ==
  /\ volume.drive /\ volume.mount
  /\ volume.root_opens
  /\ volume.repos_opens
  /\ volume.fstat_ok

\* The checks of a volume before its refs are looked at.
mount_volume_usable(volume) ==
  /\ volume.drive /\ volume.mount
  /\ volume.removable
  /\ volume.root_opens
  /\ volume.repos_opens
  /\ volume.fstat_ok

\* Variant: the device of the ref's directory is not compared.
mount_ref_resolves_any_device(volume, ref) ==
  /\ VolumeEntry(volume, ref).stat_ok
  /\ VolumeEntry(volume, ref).is_dir

\* The checks of one ref on a volume: fstatat succeeds, a directory, on the
\* device of the mount root.
mount_ref_resolves(volume, ref) ==
  /\ VolumeEntry(volume, ref).stat_ok
  /\ VolumeEntry(volume, ref).is_dir
  /\ VolumeEntry(volume, ref).st_dev = volume.st_dev

mount_repo_uri(volume, ref) == FileUri(VolumeEntry(volume, ref).canonical)

\* repo_uri_to_refs of one volume after the loop over the refs.
mount_repo_uri_to_refs(volume, ref_list) ==
  [uri \in {mount_repo_uri(volume, ref_list[k]) :
              k \in {l \in 1..Len(ref_list) : mount_ref_resolves(volume, ref_list[l])}}
     |-> SelectSeq(ref_list, LAMBDA r : /\ mount_ref_resolves(volume, r)
                                        /\ mount_repo_uri(volume, r) = uri)]

RECURSIVE mount_aggregate(_, _)
mount_aggregate(order, repo_uri_to_refs) ==
  IF order = <<>> THEN <<>>
  ELSE <<ostree_repo_finder_result_new(
           Head(order), MountPriority, Range(repo_uri_to_refs[Head(order)]), guint64(0))>>
       \o mount_aggregate(Tail(order), repo_uri_to_refs)

\* The Results one volume can add to the array, in the orders it can add them.
mount_volume_results(volume, ref_list) ==
  IF ~mount_volume_usable(volume) THEN {<<>>}
  ELSE {mount_aggregate(order, mount_repo_uri_to_refs(volume, ref_list)) :
          order \in HashTableIterOrders(DOMAIN mount_repo_uri_to_refs(volume, ref_list))}

RECURSIVE mount_results(_, _)
mount_results(volume_list, ref_list) ==
  IF volume_list = <<>> THEN {<<>>}
  ELSE {h \o t : h \in mount_volume_results(Head(volume_list), ref_list),
                 t \in mount_results(Tail(volume_list), ref_list)}

\* ostree_repo_finder_mount_resolve_async: the arrays its GTask can return.
ostree_repo_finder_mount_resolve_async(volume_list, ref_list) ==
  {GPtrArray(results) : results \in mount_results(volume_list, ref_list)}

\* glnx_fd_close on an int: when the variable goes out of scope, close() is
\* called on it unless it is -1.  The number of close() calls this makes.
glnx_cleanup_close_fdp(fd) == IF fd # -1 THEN 1 ELSE 0

\* mount_root_dfd and repos_dfd of one iteration of the loop over the volumes
\* when the iteration is left (by a continue or at its end): both start as -1,
\* and glnx_opendirat sets each when it succeeds.
mount_volume_dfds(volume) ==
  [mount_root_dfd |-> IF /\ volume.drive /\ volume.mount /\ volume.removable
                         /\ volume.root_opens
                        THEN 3 ELSE -1,
   repos_dfd      |-> IF /\ volume.drive /\ volume.mount /\ volume.removable
                         /\ volume.root_opens /\ volume.repos_opens
                        THEN 4 ELSE -1]

\* Variant: the descriptors are closed at the end of the loop body only, which
\* a continue does not reach.
mount_volume_open_fds_closed_at_end(volume) ==
  LET dfds == mount_volume_dfds(volume)
      opened == (IF dfds.mount_root_dfd # -1 THEN 1 ELSE 0)
                + (IF dfds.repos_dfd # -1 THEN 1 ELSE 0)
  IN IF mount_volume_usable(volume) THEN 0 ELSE opened

\* The descriptors one iteration of the loop over the volumes leaves open:
\* those it opened less those closed when its two variables leave scope.
mount_volume_open_fds(volume) ==
  LET dfds == mount_volume_dfds(volume)
      opened == (IF dfds.mount_root_dfd # -1 THEN 1 ELSE 0)
                + (IF dfds.repos_dfd # -1 THEN 1 ELSE 0)
  IN opened - (glnx_cleanup_close_fdp(dfds.mount_root_dfd)
               + glnx_cleanup_close_fdp(dfds.repos_dfd))

\* The descriptors one call of the Mount finder leaves open.
RECURSIVE mount_open_fds(_)
mount_open_fds(volume_list) ==
  IF volume_list = <<>> THEN 0
  ELSE mount_volume_open_fds(Head(volume_list)) + mount_open_fds(Tail(volume_list))

\* ---------------------------------------------------------------- state
VARIABLES
  n_finders,   \* length of the finders array given to resolve_all_async
  phase,       \* "idle", "rejected", "starting" (in the start-up loop), "running"
  i,           \* loop index of the start-up loop (1-based)
  data,        \* the ResolveAllData of the call
  task,        \* the GTask of the call
  finder,      \* per finder: "idle", "pending", "returned", "succeeded", "failed"
  finder_task, \* per finder: the GTask of its resolve call
  cancelled,   \* the GCancellable given to the call has been cancelled
  outcome,     \* what ostree_repo_finder_resolve_all_finish gave the caller
  cmp_a, cmp_b, cmp_c,  \* arguments of the comparator calls
  cmp_ret,              \* their return values
  refs,        \* the refs array given to resolve_async / resolve_all_async
  finders,     \* the finders given to the call: "Iface" (any implementation
               \* of the interface), "Mount" or "Config"
  remotes,     \* the remotes configured in the repository of the Config finder
  volumes,     \* the volumes the Mount finder's volume monitor lists
  ref_name,    \* argument of the is_valid_ref_name call
  ref_ret,     \* its return value
  open_fds,    \* directory descriptors the finders' calls have opened and not closed
  cli          \* the run of the find-remotes command

aggvars == <<n_finders, phase, i, data, task, finder, finder_task, cancelled, outcome>>
cmpvars == <<cmp_a, cmp_b, cmp_c, cmp_ret>>
envvars == <<refs, finders, remotes, volumes>>
refvars == <<ref_name, ref_ret>>
procvars == <<open_fds, cli>>
vars == <<n_finders, phase, i, data, task, finder, finder_task, cancelled, outcome,
          cmp_a, cmp_b, cmp_c, cmp_ret, refs, finders, remotes, volumes,
          ref_name, ref_ret, open_fds, cli>>

NoOutcome == [kind |-> "none", code |-> "None", results |-> NULL]
NoCompare == [called |-> FALSE, ab |-> 0, ba |-> 0, bc |-> 0, ac |-> 0, aa |-> 0]

\* The Results the finders of a resolve_all call report: one remote at one
\* priority with an unknown and two known timestamps, and a Result of the
\* other priority.
FinderResults ==
  { OstreeRepoFinderResult(<<97>>, ConfigPriority, {RefName(1)}, guint64(0)),
    OstreeRepoFinderResult(<<97>>, ConfigPriority, {RefName(1)}, guint64(1)),
    OstreeRepoFinderResult(<<97>>, ConfigPriority, {RefName(1)}, guint64(2)),
    OstreeRepoFinderResult(<<98>>, MountPriority, {RefName(1), RefName(2)}, guint64(0)) }

SeqsUpTo(S, n) == UNION {[1..k -> S] : k \in 0..n}

\* The refs the environment of the finders knows about.
EnvRefs == {RefName(1), RefName(2)}

\* refs arrays that fail is_valid_ref_array: empty, holding an empty name,
\* holding a name with a non-ASCII byte.
InvalidRefLists == { <<>>, << <<>> >>, <<RefName(1), <<195>>>> }

\* The refs arrays given to the library's finders.
RefLists ==
  { <<RefName(1)>>, <<RefName(2)>>, <<RefName(1), RefName(2)>>,
    <<RefName(2), RefName(1)>>, <<RefName(1), RefName(1)>> } \cup InvalidRefLists

\* The refs arrays given to resolve_all over arbitrary finders.
AggRefLists == { <<RefName(1), RefName(2)>> } \cup InvalidRefLists

\* The configurations of one remote: listing any subset of the refs, failing
\* to load its refs, or missing from the inherited configuration.
ConfigRemoteNames == {<<97>>, <<98>>, <<99>>}
RemoteChoices ==
  UNION {{ConfiguredRemote(nm, TRUE, adv, TRUE) : adv \in SUBSET EnvRefs}
         \cup {ConfiguredRemote(nm, FALSE, {}, TRUE),
               ConfiguredRemote(nm, TRUE, EnvRefs, FALSE)} : nm \in ConfigRemoteNames}

\* ostree_repo_remote_list: up to MaxRemotes remotes of different names (listed
\* by name; the finder's result does not depend on the order of the list).
RemoteLists ==
  {l \in SeqsUpTo(RemoteChoices, MaxRemotes) :
     \A k \in 1..(Len(l) - 1) : l[k].name[1] < l[k + 1].name[1]}

\* What a ref's directory under .ostree/repos can be on a volume of device 1:
\* missing, not a directory, on another device, or one of two repositories.
EntryChoices ==
  { NoEntry,
    RepoDirEntry(TRUE, FALSE, 1, <<47, 120>>),
    RepoDirEntry(TRUE, TRUE, 2, <<47, 120>>),
    RepoDirEntry(TRUE, TRUE, 1, <<47, 120>>),
    RepoDirEntry(TRUE, TRUE, 1, <<47, 121>>) }

BothInRepoX == [r \in EnvRefs |-> RepoDirEntry(TRUE, TRUE, 1, <<47, 120>>)]

\* The volumes: every content of a volume that passes the checks, and one
\* volume failing each check.
Volumes ==
  {GVolume(TRUE, TRUE, TRUE, TRUE, TRUE, TRUE, 1, e) : e \in [EnvRefs -> EntryChoices]}
  \cup { GVolume(FALSE, TRUE, TRUE, TRUE, TRUE, TRUE, 1, BothInRepoX),
         GVolume(TRUE, FALSE, TRUE, TRUE, TRUE, TRUE, 1, BothInRepoX),
         GVolume(TRUE, TRUE, FALSE, TRUE, TRUE, TRUE, 1, BothInRepoX),
         GVolume(TRUE, TRUE, TRUE, FALSE, TRUE, TRUE, 1, BothInRepoX),
         GVolume(TRUE, TRUE, TRUE, TRUE, FALSE, TRUE, 1, BothInRepoX),
         GVolume(TRUE, TRUE, TRUE, TRUE, TRUE, FALSE, 1, BothInRepoX) }

\* The volumes of the lists of more than one volume, all on device 1 (as the
\* directories a volume monitor set through the monitor property can list):
\* both refs linked to the repository /x, both linked to the repository /y,
\* one ref linked to /x and the other to a directory of another device, and a
\* drive that is not removable.
FewVolumes ==
  { GVolume(TRUE, TRUE, TRUE, TRUE, TRUE, TRUE, 1, BothInRepoX),
    GVolume(TRUE, TRUE, TRUE, TRUE, TRUE, TRUE, 1,
            [r \in EnvRefs |-> RepoDirEntry(TRUE, TRUE, 1, <<47, 121>>)]),
    GVolume(TRUE, TRUE, TRUE, TRUE, TRUE, TRUE, 1,
            [r \in EnvRefs |-> IF r = RefName(1)
                                 THEN RepoDirEntry(TRUE, TRUE, 1, <<47, 120>>)
                                 ELSE RepoDirEntry(TRUE, TRUE, 2, <<47, 122>>)]),
    GVolume(TRUE, TRUE, FALSE, TRUE, TRUE, TRUE, 1, BothInRepoX) }

\* g_volume_monitor_get_volumes: no volume, any one volume, or up to
\* MaxVolumes of the volumes above.
VolumeLists == SeqsUpTo(Volumes, 1) \cup SeqsUpTo(FewVolumes, MaxVolumes)

\* The environments of the calls over two or more finders.
SmallRemoteLists ==
  { <<>>,
    <<ConfiguredRemote(<<97>>, TRUE, {RefName(1)}, TRUE)>>,
    <<ConfiguredRemote(<<97>>, TRUE, {RefName(1)}, TRUE),
      ConfiguredRemote(<<98>>, TRUE, EnvRefs, TRUE)>> }
SmallVolumeLists ==
  { <<>>,
    <<GVolume(TRUE, TRUE, TRUE, TRUE, TRUE, TRUE, 1, BothInRepoX)>>,
    <<GVolume(TRUE, TRUE, TRUE, TRUE, TRUE, TRUE, 1,
              [r \in EnvRefs |-> RepoDirEntry(TRUE, TRUE, 1, <<47, 119 + r[1] - 96>>)])>> }

\* The environments the finders fs run in: a call of one finder ranges over
\* that finder's whole environment, a call of several over a few.
LibEnvs(fs) ==
  IF Len(fs) = 0 THEN {[remotes |-> <<>>, volumes |-> <<>>]}
  ELSE IF Len(fs) = 1 /\ fs[1] = "Config"
    THEN {[remotes |-> r, volumes |-> <<>>] : r \in RemoteLists}
  ELSE IF Len(fs) = 1
    THEN {[remotes |-> <<>>, volumes |-> v] : v \in VolumeLists}
  ELSE {[remotes |-> r, volumes |-> v] : r \in SmallRemoteLists, v \in SmallVolumeLists}

Finders == 1..n_finders

\* Number of Results held by the finder tasks that have returned so far.
RECURSIVE ProducedUpTo(_)
ProducedUpTo(f) ==
  IF f = 0 THEN 0
  ELSE ProducedUpTo(f - 1) + Len(finder_task[f].value.pdata)

AggInit ==
  /\ n_finders \in 0..MaxFinders
  /\ finders = [f \in Finders |-> "Iface"]
  /\ refs \in AggRefLists
  /\ remotes = <<>>
  /\ volumes = <<>>
  /\ phase = "idle"
  /\ i = 1
  /\ data = ResolveAllData(0, NULL)
  /\ task = GTaskNew
  /\ finder = [f \in Finders |-> "idle"]
  /\ finder_task = [f \in Finders |-> GTaskNew]
  /\ cancelled = FALSE
  /\ outcome = NoOutcome

CmpIdle ==
  /\ cmp_a = OstreeRepoFinderResult(<<97>>, MountPriority, RefPrefix(1), guint64(0))
  /\ cmp_b = cmp_a
  /\ cmp_c = cmp_a
  /\ cmp_ret = NoCompare

NoValidate == [called |-> FALSE, valid |-> FALSE]

RefIdle ==
  /\ ref_name = <<>>
  /\ ref_ret = NoValidate

\* The find-remotes command is not run, and no descriptor is open yet.
NoCli == [pc |-> "idle", argc |-> 0, parse_ok |-> FALSE, writable |-> FALSE,
          cache_dir_ok |-> FALSE, started |-> FALSE,
          find_result |-> [done |-> FALSE, error |-> FALSE, results |-> <<>>],
          stdout |-> <<>>, ret |-> "none"]

ProcIdle ==
  /\ open_fds = 0
  /\ cli = NoCli

Init == AggInit /\ CmpIdle /\ RefIdle /\ ProcIdle

\* ---------------------------------------------- ostree_repo_finder_resolve_all_async
\* g_return_if_fail (finders != NULL && finders[0] != NULL) and
\* g_return_if_fail (is_valid_ref_array (refs)): the function returns, nothing
\* is started, no task is created, the callback is never called.
resolve_all_async_reject ==
  /\ phase = "idle"
  /\ (n_finders = 0 \/ ~is_valid_ref_array(refs))
  /\ phase' = "rejected"
  /\ UNCHANGED <<n_finders, i, data, task, finder, finder_task, cancelled, outcome>>
  /\ UNCHANGED <<cmpvars, envvars, refvars, procvars>>

\* Variant: the count does not start at 1 for the start-up loop.
resolve_all_async_begin_from_zero ==
  /\ phase = "idle"
  /\ n_finders >= 1
  /\ is_valid_ref_array(refs)
  /\ phase' = "starting"
  /\ i' = 1
  /\ task' = GTaskNew
  /\ data' = ResolveAllData(0, GPtrArray(<<>>))
  /\ UNCHANGED <<n_finders, finder, finder_task, cancelled, outcome>>
  /\ UNCHANGED <<cmpvars, envvars, refvars, procvars>>

\* task and data are set up; n_finders_pending = 1 while setting up the loop.
resolve_all_async_begin ==
  /\ phase = "idle"
  /\ n_finders >= 1
  /\ is_valid_ref_array(refs)
  /\ phase' = "starting"
  /\ i' = 1
  /\ task' = GTaskNew
  /\ data' = ResolveAllData(1, GPtrArray(<<>>))
  /\ UNCHANGED <<n_finders, finder, finder_task, cancelled, outcome>>
  /\ UNCHANGED <<cmpvars, envvars, refvars, procvars>>

\* One iteration of the loop: iface->resolve_async (finders[i], ...);
\* data->n_finders_pending++.
resolve_all_async_start ==
  /\ phase = "starting"
  /\ i <= n_finders
  /\ finder' = [finder EXCEPT ![i] = "pending"]
  /\ data' = ResolveAllData(data.n_finders_pending + 1, data.results)
  /\ i' = i + 1
  /\ UNCHANGED <<n_finders, phase, task, finder_task, cancelled, outcome>>
  /\ UNCHANGED <<cmpvars, envvars, refvars, procvars>>

\* After the loop: resolve_all_finished_one (task), and the function returns.
resolve_all_async_end ==
  /\ phase = "starting"
  /\ i > n_finders
  /\ \E nxt \in resolve_all_finished_one(data, task) :
        /\ data' = nxt.data
        /\ task' = nxt.task
  /\ phase' = "running"
  /\ UNCHANGED <<n_finders, i, finder, finder_task, cancelled, outcome>>
  /\ UNCHANGED <<cmpvars, envvars, refvars, procvars>>

\* ------------------------------------------------------------- the finders
\* A finder's resolve call reaches its terminal state: its GTask returns an
\* error or an array of Results, and its completion callback is queued.
finder_return(f, cap) ==
  /\ finder[f] = "pending"
  /\ \/ finder_task' = [finder_task EXCEPT ![f] = g_task_return_error(@)]
     \/ \E rs \in SeqsUpTo(FinderResults, cap - ProducedUpTo(n_finders)) :
          finder_task' = [finder_task EXCEPT ![f] = g_task_return_pointer(@, GPtrArray(rs))]
  /\ finder' = [finder EXCEPT ![f] = "returned"]
  /\ UNCHANGED <<n_finders, phase, i, data, task, cancelled, outcome>>
  /\ UNCHANGED <<cmpvars, envvars, refvars, procvars>>

\* The main context dispatches the queued callback: resolve_all_cb.
FinderCallback(f) ==
  /\ phase \in {"starting", "running"}
  /\ finder[f] = "returned"
  /\ LET ret == resolve_finish(finder_task[f], cancelled)
     IN /\ finder' = [finder EXCEPT ![f] = IF ret.kind = "error" THEN "failed"
                                                               ELSE "succeeded"]
        /\ \E nxt \in resolve_all_cb(data, task, ret) :
              /\ data' = nxt.data
              /\ task' = nxt.task
  /\ UNCHANGED <<n_finders, phase, i, finder_task, cancelled, outcome>>
  /\ UNCHANGED <<cmpvars, envvars, refvars, procvars>>

\* ------------------------------------------------------------- the caller
g_cancellable_cancel ==
  /\ ~cancelled
  /\ outcome.kind = "none"
  /\ cancelled' = TRUE
  /\ UNCHANGED <<n_finders, phase, i, data, task, finder, finder_task, outcome>>
  /\ UNCHANGED <<cmpvars, envvars, refvars, procvars>>

\* The caller's callback runs once the task has returned and calls
\* ostree_repo_finder_resolve_all_finish.
ResolveAllFinish ==
  /\ phase = "running"
  /\ task.n_returns >= 1
  /\ outcome.kind = "none"
  /\ outcome' = ostree_repo_finder_resolve_all_finish(task, cancelled)
  /\ UNCHANGED <<n_finders, phase, i, data, task, finder, finder_task, cancelled>>
  /\ UNCHANGED <<cmpvars, envvars, refvars, procvars>>

Next ==
  \/ resolve_all_async_reject
  \/ resolve_all_async_begin
  \/ resolve_all_async_start
  \/ resolve_all_async_end
  \/ \E f \in Finders : finder_return(f, MaxResults)
  \/ \E f \in Finders : FinderCallback(f)
  \/ g_cancellable_cancel
  \/ ResolveAllFinish

Spec == Init /\ [][Next]_vars

\* ------------------------------------------------- the comparator on its own
CmpInit ==
  /\ cmp_a \in ResultSet
  /\ cmp_b \in ResultSet
  /\ cmp_c \in ResultSet
  /\ cmp_ret = NoCompare

AggIdle ==
  /\ n_finders = 0
  /\ finders = <<>>
  /\ refs = <<>>
  /\ remotes = <<>>
  /\ volumes = <<>>
  /\ phase = "idle"
  /\ i = 1
  /\ data = ResolveAllData(0, NULL)
  /\ task = GTaskNew
  /\ finder = [f \in Finders |-> "idle"]
  /\ finder_task = [f \in Finders |-> GTaskNew]
  /\ cancelled = FALSE
  /\ outcome = NoOutcome

CompareCall ==
  /\ ~cmp_ret.called
  /\ \E ab \in ostree_repo_finder_result_compare_returns(cmp_a, cmp_b),
        ba \in ostree_repo_finder_result_compare_returns(cmp_b, cmp_a),
        bc \in ostree_repo_finder_result_compare_returns(cmp_b, cmp_c),
        ac \in ostree_repo_finder_result_compare_returns(cmp_a, cmp_c),
        aa \in ostree_repo_finder_result_compare_returns(cmp_a, cmp_a) :
       cmp_ret' = [called |-> TRUE, ab |-> ab, ba |-> ba, bc |-> bc, ac |-> ac, aa |-> aa]
  /\ UNCHANGED <<cmp_a, cmp_b, cmp_c>>
  /\ UNCHANGED <<aggvars, envvars, refvars, procvars>>

InitCmp == AggIdle /\ CmpInit /\ RefIdle /\ ProcIdle

SpecCmp == InitCmp /\ [][CompareCall]_vars

\* The comparator on pairs of Results whose timestamps range over the whole
\* width of a guint64.
CmpInitWide ==
  /\ cmp_a \in WideResultSet
  /\ cmp_b \in WideResultSet
  /\ cmp_c = cmp_a
  /\ cmp_ret = NoCompare

InitWide == AggIdle /\ CmpInitWide /\ RefIdle /\ ProcIdle

SpecWide == InitWide /\ [][CompareCall]_vars

\* The comparator on pairs of Results whose priorities lie at and near the
\* ends of the gint range, around zero, and at the finders' priorities.
GintSamples == {MinGint, MinGint + 1, -1, 0, 1, MountPriority, ConfigPriority, MaxGint}

PriorityResultSet ==
  {OstreeRepoFinderResult(nm, p, RefPrefix(1), guint64(0)) :
     nm \in RemoteNames, p \in GintSamples}

CmpInitPriority ==
  /\ cmp_a \in PriorityResultSet
  /\ cmp_b \in PriorityResultSet
  /\ cmp_c = cmp_a
  /\ cmp_ret = NoCompare

InitPriority == AggIdle /\ CmpInitPriority /\ RefIdle /\ ProcIdle

SpecPriority == InitPriority /\ [][CompareCall]_vars

\* The same steps with the smaller cap on the Results produced.
NextLive ==
  \/ resolve_all_async_reject
  \/ resolve_all_async_begin
  \/ resolve_all_async_start
  \/ resolve_all_async_end
  \/ \E f \in Finders : finder_return(f, MaxLiveResults)
  \/ \E f \in Finders : FinderCallback(f)
  \/ g_cancellable_cancel
  \/ ResolveAllFinish

\* Fair scheduling: the code of resolve_all_async runs on, the main context
\* dispatches every queued callback and the caller's callback.  That every
\* finder that was started eventually returns is the hypothesis under which
\* termination is claimed; the code does nothing to enforce it.
FairSpec ==
  /\ Init
  /\ [][NextLive]_vars
  /\ WF_vars(resolve_all_async_begin \/ resolve_all_async_start \/ resolve_all_async_end)
  /\ \A f \in 1..MaxFinders : WF_vars(f \in Finders /\ finder_return(f, MaxLiveResults))
  /\ \A f \in 1..MaxFinders : WF_vars(f \in Finders /\ FinderCallback(f))
  /\ WF_vars(ResolveAllFinish)

\* The same scheduling without any assumption on the finders: a finder that
\* was started may never return, cancelled or not (nothing in resolve_all
\* watches the cancellable or the time).
UnresponsiveSpec ==
  /\ Init
  /\ [][NextLive]_vars
  /\ WF_vars(resolve_all_async_begin \/ resolve_all_async_start \/ resolve_all_async_end)
  /\ \A f \in 1..MaxFinders : WF_vars(f \in Finders /\ FinderCallback(f))
  /\ WF_vars(ResolveAllFinish)

\* ---------------------------- finders that complete inside resolve_async
\* One iteration of the loop of resolve_all_async with a finder whose
\* completion callback runs before its resolve_async returns (an
\* implementation of the interface that calls the GAsyncReadyCallback itself
\* instead of leaving it to a GTask): iface->resolve_async (finders[i], ...),
\* inside it resolve_all_cb, and then data->n_finders_pending++.
resolve_all_async_start_sync ==
  /\ phase = "starting"
  /\ i <= n_finders
  /\ \E ft \in {g_task_return_error(finder_task[i])} \cup
               {g_task_return_pointer(finder_task[i], GPtrArray(rs)) :
                  rs \in SeqsUpTo(FinderResults, MaxLiveResults - ProducedUpTo(n_finders))} :
        /\ finder_task' = [finder_task EXCEPT ![i] = ft]
        /\ finder' = [finder EXCEPT ![i] =
                        IF resolve_finish(ft, cancelled).kind = "error" THEN "failed"
                                                                        ELSE "succeeded"]
        /\ \E nxt \in resolve_all_cb(data, task, resolve_finish(ft, cancelled)) :
              /\ data' = ResolveAllData(nxt.data.n_finders_pending + 1, nxt.data.results)
              /\ task' = nxt.task
  /\ i' = i + 1
  /\ UNCHANGED <<n_finders, phase, cancelled, outcome>>
  /\ UNCHANGED <<cmpvars, envvars, refvars, procvars>>

\* The session's array has been handed to the task (data->results is NULL)
\* while the call is not over: every later step of the session works on a NULL
\* array (g_ptr_array_sort and array_concatenate_steal on NULL, the read of
\* data->results->len), which is undefined; the call is followed no further.
SessionLost ==
  /\ phase \in {"starting", "running"}
  /\ data.results.is_null
  /\ data.n_finders_pending > 0

NextSync ==
  \/ resolve_all_async_reject
  \/ resolve_all_async_begin
  \/ ~SessionLost /\ resolve_all_async_start
  \/ ~SessionLost /\ resolve_all_async_start_sync
  \/ ~SessionLost /\ resolve_all_async_end
  \/ \E f \in Finders : ~SessionLost /\ finder_return(f, MaxLiveResults)
  \/ \E f \in Finders : ~SessionLost /\ FinderCallback(f)
  \/ g_cancellable_cancel
  \/ ~SessionLost /\ ResolveAllFinish

SpecSync == Init /\ [][NextSync]_vars

\* ------------------------------------- the calls over the library's finders
\* iface->resolve_async of finders[f]: both finders of the library do all
\* their work inside the call and return their GTask before it ends; the
\* arrays that GTask can hold.
\* Variant: the finder keeps its result list in the instance, so a call hands
\* back what an earlier call on the same instance found, then its own.
iface_resolve_async_retaining(f) ==
  LET alone == IF finders[f] = "Mount"
                 THEN ostree_repo_finder_mount_resolve_async(volumes, refs)
                 ELSE ostree_repo_finder_config_resolve_async(remotes, refs)
      earlier == {g \in 1..(f - 1) : /\ finders[g] = finders[f]
                                     /\ finder_task[g].n_returns = 1}
  IN IF earlier = {} THEN alone
     ELSE {GPtrArray(finder_task[CHOOSE g \in earlier : TRUE].value.pdata \o r.pdata) :
             r \in alone}

iface_resolve_async(f) ==
  IF finders[f] = "Mount"
    THEN ostree_repo_finder_mount_resolve_async(volumes, refs)
    ELSE ostree_repo_finder_config_resolve_async(remotes, refs)

LibInit ==
  /\ finders \in SeqsUpTo({"Mount", "Config"}, MaxFinders)
  /\ n_finders = Len(finders)
  /\ refs \in RefLists
  /\ \E env \in LibEnvs(finders) :
        /\ remotes = env.remotes
        /\ volumes = env.volumes
  /\ phase = "idle"
  /\ i = 1
  /\ data = ResolveAllData(0, NULL)
  /\ task = GTaskNew
  /\ finder = [f \in Finders |-> "idle"]
  /\ finder_task = [f \in Finders |-> GTaskNew]
  /\ cancelled = FALSE
  /\ outcome = NoOutcome

InitLib == LibInit /\ CmpIdle /\ RefIdle /\ ProcIdle

\* ostree_repo_finder_resolve_async (self = finders[0], or NULL when there is
\* none) failing a g_return_if_fail check: it returns, nothing is started.
ostree_repo_finder_resolve_async_reject ==
  /\ phase = "idle"
  /\ (n_finders = 0 \/ ~is_valid_ref_array(refs))
  /\ phase' = "rejected"
  /\ UNCHANGED <<n_finders, i, data, task, finder, finder_task, cancelled, outcome>>
  /\ UNCHANGED <<cmpvars, envvars, refvars, procvars>>

\* ostree_repo_finder_resolve_async (self = finders[0]): the task is created
\* and iface->resolve_async runs the finder, with resolve_cb as its callback.
ostree_repo_finder_resolve_async ==
  /\ phase = "idle"
  /\ n_finders >= 1
  /\ is_valid_ref_array(refs)
  /\ phase' = "one"
  /\ task' = GTaskNew
  /\ \E results \in iface_resolve_async(1) :
        finder_task' = [finder_task EXCEPT ![1] = g_task_return_pointer(@, results)]
  /\ finder' = [finder EXCEPT ![1] = "returned"]
  /\ open_fds' = open_fds + (IF finders[1] = "Mount" THEN mount_open_fds(volumes) ELSE 0)
  /\ UNCHANGED <<n_finders, i, data, cancelled, outcome>>
  /\ UNCHANGED <<cmpvars, envvars, refvars, cli>>

\* The main context dispatches the finder's callback: resolve_cb.
ResolveCallback ==
  /\ phase = "one"
  /\ finder[1] = "returned"
  /\ LET ret == resolve_finish(finder_task[1], cancelled)
     IN /\ finder' = [finder EXCEPT ![1] = IF ret.kind = "error" THEN "failed"
                                                               ELSE "succeeded"]
        /\ task' = resolve_cb(task, ret)
  /\ UNCHANGED <<n_finders, phase, i, data, finder_task, cancelled, outcome>>
  /\ UNCHANGED <<cmpvars, envvars, refvars, procvars>>

\* The caller's callback calls ostree_repo_finder_resolve_finish.
ResolveFinish ==
  /\ phase = "one"
  /\ task.n_returns >= 1
  /\ outcome.kind = "none"
  /\ outcome' = ostree_repo_finder_resolve_finish(task, cancelled)
  /\ UNCHANGED <<n_finders, phase, i, data, task, finder, finder_task, cancelled>>
  /\ UNCHANGED <<cmpvars, envvars, refvars, procvars>>

\* One iteration of the loop of resolve_all_async over the library's finders:
\* iface->resolve_async (finders[i], ...) runs the finder, which returns its
\* GTask; data->n_finders_pending++.
resolve_all_async_start_finder ==
  /\ phase = "starting"
  /\ i <= n_finders
  /\ \E results \in iface_resolve_async(i) :
        finder_task' = [finder_task EXCEPT ![i] = g_task_return_pointer(@, results)]
  /\ finder' = [finder EXCEPT ![i] = "returned"]
  /\ data' = ResolveAllData(data.n_finders_pending + 1, data.results)
  /\ i' = i + 1
  /\ open_fds' = open_fds + (IF finders[i] = "Mount" THEN mount_open_fds(volumes) ELSE 0)
  /\ UNCHANGED <<n_finders, phase, task, cancelled, outcome>>
  /\ UNCHANGED <<cmpvars, envvars, refvars, cli>>

NextLib ==
  \/ ostree_repo_finder_resolve_async_reject
  \/ ostree_repo_finder_resolve_async
  \/ ResolveCallback
  \/ ResolveFinish
  \/ resolve_all_async_reject
  \/ resolve_all_async_begin
  \/ resolve_all_async_start_finder
  \/ resolve_all_async_end
  \/ \E f \in Finders : FinderCallback(f)
  \/ g_cancellable_cancel
  \/ ResolveAllFinish

SpecLib == InitLib /\ [][NextLib]_vars

\* ------------------------------------------------ the find-remotes command
\* What ostree_repo_find_remotes_finish can give the command: an error
\* (results == NULL) or a NULL-terminated array of Results.
FindRemotesOutcomes ==
  {[done |-> TRUE, error |-> TRUE, results |-> <<>>]}
  \cup {[done |-> TRUE, error |-> FALSE, results |-> rs] :
          rs \in SeqsUpTo(FinderResults, MaxResults)}

\* Variant: nothing is printed for an empty array.
print_results_silent_when_empty(results) ==
  [k \in 1..Len(results) |-> [line |-> "Result", index |-> k - 1]]

\* The output of the command for the array results: a block "Result <i>: ..."
\* for each element, then "No results." if results[0] == NULL.
print_results(results) ==
  [k \in 1..Len(results) |-> [line |-> "Result", index |-> k - 1]]
  \o (IF results = <<>> THEN <<[line |-> "No results.", index |-> 0]>> ELSE <<>>)

\* The command is started with argc arguments left after option parsing
\* (argv[0] included); whether the options parse and the repository opens,
\* whether it is writable, and whether the cache directory (if one is given)
\* can be set.
CliInit ==
  /\ open_fds = 0
  /\ cli \in {[NoCli EXCEPT !.pc = "start", !.argc = a, !.parse_ok = p,
                            !.writable = w, !.cache_dir_ok = c] :
               a \in 1..(MaxRefs + 1), p \in BOOLEAN, w \in BOOLEAN, c \in BOOLEAN}

\* ostree_builtin_find_remotes up to its wait for the result: it returns
\* FALSE on a failed check, or calls ostree_repo_find_remotes_async.
ostree_builtin_find_remotes ==
  /\ cli.pc = "start"
  /\ cli' = IF ~cli.parse_ok \/ ~cli.writable \/ cli.argc < 2 \/ ~cli.cache_dir_ok
              THEN [cli EXCEPT !.pc = "returned", !.ret = "FALSE"]
              ELSE [cli EXCEPT !.pc = "waiting", !.started = TRUE]
  /\ UNCHANGED <<aggvars, cmpvars, envvars, refvars, open_fds>>

\* The operation completes: get_result_cb stores its GAsyncResult.
get_result_cb ==
  /\ cli.pc = "waiting"
  /\ \E r \in FindRemotesOutcomes :
        cli' = [cli EXCEPT !.pc = "got_result", !.find_result = r]
  /\ UNCHANGED <<aggvars, cmpvars, envvars, refvars, open_fds>>

\* The rest of ostree_builtin_find_remotes, once find_result is set:
\* ostree_repo_find_remotes_finish, the output, the return value.
ostree_builtin_find_remotes_finish ==
  /\ cli.pc = "got_result"
  /\ cli' = IF cli.find_result.error
              THEN [cli EXCEPT !.pc = "returned", !.ret = "FALSE"]
              ELSE [cli EXCEPT !.pc = "returned", !.ret = "TRUE",
                               !.stdout = print_results(cli.find_result.results)]
  /\ UNCHANGED <<aggvars, cmpvars, envvars, refvars, open_fds>>

NextCli ==
  \/ ostree_builtin_find_remotes
  \/ get_result_cb
  \/ ostree_builtin_find_remotes_finish

InitCli == AggIdle /\ CmpIdle /\ RefIdle /\ CliInit

SpecCli == InitCli /\ [][NextCli]_vars

\* ------------------------------------------------ is_valid_ref_name on its own
\* Bytes on both sides of the limits of the printable and of the ASCII range.
RefBytes == {31, 32, 97, 126, 127, 128, 195}

RefInit ==
  /\ ref_name \in SeqsUpTo(RefBytes, MaxNameLen)
  /\ ref_ret = NoValidate

ValidateCall ==
  /\ ~ref_ret.called
  /\ ref_ret' = [called |-> TRUE, valid |-> is_valid_ref_name(ref_name)]
  /\ UNCHANGED ref_name
  /\ UNCHANGED <<aggvars, cmpvars, envvars, procvars>>

InitRef == AggIdle /\ CmpIdle /\ RefInit /\ ProcIdle

SpecRef == InitRef /\ [][ValidateCall]_vars

\* ----------------------------------------------------------------- helpers
AllHandled == \A f \in Finders : finder[f] \in {"succeeded", "failed"}
Delivered == task.n_returns >= 1

RECURSIVE CountIn(_, _)
CountIn(r, s) ==
  IF s = <<>> THEN 0
  ELSE (IF Head(s) = r THEN 1 ELSE 0) + CountIn(r, Tail(s))

\* How often the finders 1..k that succeeded reported r.
RECURSIVE SucceededCount(_, _)
SucceededCount(r, k) ==
  IF k = 0 THEN 0
  ELSE SucceededCount(r, k - 1)
       + (IF finder[k] = "succeeded" THEN CountIn(r, finder_task[k].value.pdata) ELSE 0)

AdjacentSorted(s) ==
  \A k \in 1..(Len(s) - 1) : ostree_repo_finder_result_compare(s[k], s[k + 1]) <= 0

\* The accumulator after the finders of `order` completed in that order.
RECURSIVE Accumulated(_)
Accumulated(order) ==
  IF order = <<>> THEN <<>>
  ELSE finder_task[Head(order)].value.pdata \o Accumulated(Tail(order))

Succeeded == {f \in Finders : finder[f] = "succeeded"}
CompletionOrders ==
  {o \in [1..Cardinality(Succeeded) -> Succeeded] :
     \A k, l \in DOMAIN o : o[k] = o[l] => k = l}

\* ------------------------------------------------------------------ claims
\* C1: the result of resolve_all is never delivered while a finder that was
\* started has not reached its terminal state and had its completion handled;
\* so as long as some finder is still pending nothing has been delivered.
C1_NoDeliveryBeforeAllComplete ==
  /\ (Delivered \/ outcome.kind # "none") => (phase = "running" /\ AllHandled)
  /\ (\E f \in Finders : finder[f] \in {"pending", "returned"}) => task.n_returns = 0

C1_Witness ==
  /\ n_finders = 2
  /\ Delivered
  /\ \E f \in Finders : finder[f] = "succeeded" /\ Len(finder_task[f].value.pdata) = 2

\* C2: the result is delivered exactly once: never a second time, never zero
\* times once the call has returned and every completion has been handled;
\* and every completion is counted once: the pending count is the number of
\* finders started and not yet handled (plus one during start-up).
C2_DeliveredExactlyOnce ==
  /\ task.n_returns <= 1
  /\ (phase = "running" /\ AllHandled) => task.n_returns = 1
  /\ phase \in {"starting", "running"} =>
       data.n_finders_pending =
         (IF phase = "starting" THEN 1 ELSE 0)
         + Cardinality({f \in Finders : finder[f] \in {"pending", "returned"}})

C2_Witness ==
  /\ n_finders = 2
  /\ task.n_returns = 1
  /\ finder[1] = "failed"
  /\ finder[2] = "succeeded"
  /\ outcome.kind = "ok"

\* C3: if every finder that is started eventually returns (and callbacks are
\* scheduled fairly), a resolve_all call that has started eventually sees the
\* pending count reach 0, delivers its (sorted) result once, and the caller
\* gets its outcome.
C3_EventuallyDone ==
  (phase = "starting") ~> (/\ AllHandled
                           /\ data.n_finders_pending = 0
                           /\ task.n_returns = 1
                           /\ outcome.kind # "none")

C3_Witness ==
  /\ n_finders = MaxFinders
  /\ AllHandled
  /\ task.n_returns = 1
  /\ outcome.kind # "none"

\* C4: a finder that fails contributes nothing and does not make the outcome
\* an error (the token not being cancelled): with two finders, one failed and
\* one returning [ResultA], the returned list is exactly [ResultA].
C4_PartialFailureTolerated ==
  (outcome.kind # "none" /\ ~cancelled) =>
     /\ outcome.kind = "ok"
     /\ Len(outcome.results.pdata) =
          Cardinality({<<f, k>> \in Finders \X (1..MaxResults) :
                         finder[f] = "succeeded" /\ k <= Len(finder_task[f].value.pdata)})
     /\ \A g \in Finders :
          (/\ finder[g] = "succeeded"
           /\ Len(finder_task[g].value.pdata) = 1
           /\ \A f \in Finders \ {g} : finder[f] = "failed")
          => outcome.results.pdata = finder_task[g].value.pdata

C4_Witness ==
  /\ n_finders = 2
  /\ ~cancelled
  /\ \E f, g \in Finders :
        /\ finder[f] = "failed"
        /\ finder[g] = "succeeded"
        /\ Len(finder_task[g].value.pdata) = 1
        /\ outcome.kind = "ok"
        /\ outcome.results.pdata = finder_task[g].value.pdata

\* C5: when every finder fails and the token is not cancelled, resolve_all
\* completes and its outcome is success with an empty list.
C5_AllFailedIsEmptySuccess ==
  (n_finders >= 1 /\ (\A f \in Finders : finder[f] = "failed") /\ ~cancelled) =>
     /\ phase = "running" => (task.n_returns = 1 /\ ~task.error
                               /\ task.value = GPtrArray(<<>>))
     /\ outcome.kind # "none" => outcome = [kind |-> "ok", code |-> "None",
                                            results |-> GPtrArray(<<>>)]

C5_Witness ==
  /\ n_finders = 2
  /\ \A f \in Finders : finder[f] = "failed"
  /\ ~cancelled
  /\ outcome.kind = "ok"
  /\ outcome.results.pdata = <<>>

\* C6: the list delivered holds exactly the Results the successful finders
\* reported, each as often as it was reported (also when two finders report
\* the same Result), whatever the order of the completions.
C6_ExactlyTheReportedResults ==
  /\ Delivered =>
       /\ ~task.value.is_null
       /\ \A r \in FinderResults :
             CountIn(r, task.value.pdata) = SucceededCount(r, n_finders)
       /\ Range(task.value.pdata) \subseteq FinderResults
  /\ outcome.kind = "ok" => outcome.results = task.value

C6_Witness ==
  /\ n_finders = 2
  /\ outcome.kind = "ok"
  /\ finder[1] = "succeeded" /\ finder[2] = "succeeded"
  /\ \E r \in FinderResults :
        /\ CountIn(r, finder_task[1].value.pdata) = 1
        /\ CountIn(r, finder_task[2].value.pdata) = 1
        /\ CountIn(r, outcome.results.pdata) = 2

\* C7: the list returned by resolve_all is sorted: every adjacent pair (x, y)
\* has compare(x, y) <= 0.
C7_ReturnedListSorted ==
  outcome.kind = "ok" => AdjacentSorted(outcome.results.pdata)

\* C8: the returned sequence is the same for every order in which the
\* finders complete: whatever order the successful finders' lists are
\* accumulated in, sorting gives the list that was returned.
C8_OrderIndependentOfArrival ==
  outcome.kind = "ok" =>
     \A o \in CompletionOrders :
        \A sorted \in g_ptr_array_sort(GPtrArray(Accumulated(o))) :
           sorted = outcome.results

\* C9: the comparator is transitive: compare(a,b) <= 0 and compare(b,c) <= 0
\* imply compare(a,c) <= 0.
C9_CompareTransitive ==
  cmp_ret.called => ((cmp_ret.ab <= 0 /\ cmp_ret.bc <= 0) => cmp_ret.ac <= 0)

\* C10: for two Results of different priority the one with the lower
\* priority value is ordered first, whatever the other fields are.
C10_PriorityFirst ==
  (cmp_ret.called /\ cmp_a.priority # cmp_b.priority) =>
     /\ (cmp_ret.ab < 0) = (cmp_a.priority < cmp_b.priority)
     /\ (cmp_ret.ab > 0) = (cmp_a.priority > cmp_b.priority)
     /\ (cmp_ret.ba < 0) = (cmp_b.priority < cmp_a.priority)

C10_Witness ==
  /\ cmp_ret.called
  /\ cmp_a.priority < cmp_b.priority
  /\ guint64_lt(cmp_b.summary_last_modified, cmp_a.summary_last_modified)
  /\ cmp_b.summary_last_modified # guint64(0)
  /\ Cardinality(cmp_a.ref_to_checksum) > Cardinality(cmp_b.ref_to_checksum)
  /\ g_strcmp0(cmp_a.remote.name, cmp_b.remote.name) > 0
  /\ cmp_ret.ab < 0

\* The timestamp key does not decide between a and b: one of the timestamps
\* is unknown (0) or they are equal.
TimestampKeyTies(a, b) ==
  \/ a.summary_last_modified = guint64(0)
  \/ b.summary_last_modified = guint64(0)
  \/ a.summary_last_modified = b.summary_last_modified

\* C11: for two Results of equal priority whose timestamps are both non-zero
\* and differ, the return value has the sign of the timestamp difference (the
\* older one is ordered first), for every value of the 64-bit timestamps.
C11_OlderTimestampFirst ==
  (/\ cmp_ret.called
   /\ cmp_a.priority = cmp_b.priority
   /\ ~TimestampKeyTies(cmp_a, cmp_b)) =>
     /\ (cmp_ret.ab < 0) =
          guint64_lt(cmp_a.summary_last_modified, cmp_b.summary_last_modified)
     /\ (cmp_ret.ab > 0) =
          guint64_lt(cmp_b.summary_last_modified, cmp_a.summary_last_modified)

C13_NameTieBreak ==
  cmp_ret.called =>
    /\ (/\ cmp_a.priority = cmp_b.priority
        /\ TimestampKeyTies(cmp_a, cmp_b)
        /\ Cardinality(cmp_a.ref_to_checksum) = Cardinality(cmp_b.ref_to_checksum)) =>
          /\ (cmp_ret.ab < 0) = (g_strcmp0(cmp_a.remote.name, cmp_b.remote.name) < 0)
          /\ (cmp_ret.ab > 0) = (g_strcmp0(cmp_a.remote.name, cmp_b.remote.name) > 0)
    /\ cmp_ret.ab = 0 => cmp_a.remote.name = cmp_b.remote.name

\* C14: among Results that tie on priority and freshness, a Result claiming
\* more refs is ordered before a Result claiming fewer.
C14_MoreRefsFirst ==
  (/\ cmp_ret.called
   /\ cmp_a.priority = cmp_b.priority
   /\ TimestampKeyTies(cmp_a, cmp_b)
   /\ Cardinality(cmp_a.ref_to_checksum) > Cardinality(cmp_b.ref_to_checksum)) =>
     cmp_ret.ab < 0

\* The Results of every array a finder's task, the call's task or the caller
\* holds.
ResultsHeld ==
  UNION ({Range(finder_task[f].value.pdata) : f \in Finders}
         \cup {Range(task.value.pdata), Range(outcome.results.pdata)})

\* A ref that is empty or holds a non-ASCII byte.
InvalidRef(name) == name = <<>> \/ \E k \in 1..Len(name) : name[k] >= 128

\* No finder, no ref, or an invalid ref among the refs.
InvalidInput ==
  n_finders = 0 \/ refs = <<>> \/ \E k \in 1..Len(refs) : InvalidRef(refs[k])

\* C15: the list returned by ostree_repo_finder_resolve_finish is sorted:
\* every adjacent pair (x, y) has compare(x, y) <= 0.
C15_ResolveOneSorted ==
  (phase = "one" /\ outcome.kind = "ok") => AdjacentSorted(outcome.results.pdata)

\* C16: a call with invalid input (no finder, an empty ref list, a ref list
\* holding an empty or non-ASCII ref) delivers an InvalidArgument failure to
\* its caller.
C16_InvalidArgumentDelivered ==
  phase = "rejected" => (outcome.kind = "error" /\ outcome.code = "InvalidArgument")

\* C17: with invalid input the call is rejected before anything is started:
\* no finder's resolve is called, no task and no ResolveAllData is created,
\* and nothing is ever delivered.
C17_RejectedBeforeAnyWork ==
  InvalidInput =>
     /\ phase \in {"idle", "rejected"}
     /\ \A f \in Finders : finder[f] = "idle" /\ finder_task[f] = GTaskNew
     /\ data = ResolveAllData(0, NULL)
     /\ task = GTaskNew
     /\ outcome = NoOutcome

C17_Witness ==
  /\ phase = "rejected"
  /\ n_finders = 2
  /\ Len(refs) = 2
  /\ ~InvalidRef(refs[1])
  /\ InvalidRef(refs[2])

\* C18: is_valid_ref_name accepts a name if and only if it is non-empty and
\* every byte is a printable ASCII character (0x20..0x7E).
C18_ValidIffPrintableAscii ==
  ref_ret.called =>
    (ref_ret.valid = (/\ ref_name # <<>>
                      /\ \A k \in 1..Len(ref_name) : ref_name[k] \in 32..126))

\* C19: no Result in any array returned by a finder, by resolve or by
\* resolve_all has an empty set of refs.
C19_ResultsHaveRefs ==
  \A r \in ResultsHeld : r.ref_to_checksum # {}

C19_Witness ==
  /\ outcome.kind = "ok"
  /\ Len(outcome.results.pdata) = 1
  /\ Len(remotes) = 2
  /\ \E k \in 1..Len(remotes) :
        /\ remotes[k].refs_ok /\ remotes[k].inherited_ok
        /\ remotes[k].remote_refs # {}
        /\ remotes[k].remote_refs \cap Range(refs) = {}

\* C20: every Result lists only refs that were requested in the call, and a
\* Result of the Config finder only refs its remote lists.
C20_RefsSubsetOfRequested ==
  \A r \in ResultsHeld :
     /\ r.ref_to_checksum \subseteq Range(refs)
     /\ r.priority = ConfigPriority =>
          \E k \in 1..Len(remotes) :
             /\ remotes[k].name = r.remote.name
             /\ remotes[k].refs_ok
             /\ r.ref_to_checksum \subseteq remotes[k].remote_refs

C20_Witness ==
  /\ outcome.kind = "ok"
  /\ \E k \in 1..Len(outcome.results.pdata) :
        /\ outcome.results.pdata[k].priority = ConfigPriority
        /\ outcome.results.pdata[k].ref_to_checksum = {RefName(2)}
        /\ Range(refs) = EnvRefs
        /\ \E l \in 1..Len(remotes) : remotes[l].remote_refs = EnvRefs

\* The caller was given a Cancelled failure and no list.
CancelledOutcome == [kind |-> "error", code |-> "Cancelled", results |-> NULL]

\* No finder of the call has completed yet.
NoneCompleted == \A f \in Finders : finder[f] \in {"idle", "pending"}

C22_TerminatesWithoutFinderResponse ==
  (cancelled /\ phase \in {"starting", "running"})
    ~> (task.n_returns = 1 /\ outcome.kind # "none")

\* The finders whose call is outstanding: started, completion not yet handled.
InFlight == {f \in Finders : finder[f] \in {"pending", "returned"}}

\* C23: a finder whose call ends in a Cancelled failure is counted like any
\* other completion: handling it changes nothing about the other finders,
\* takes one off the pending count and returns the task only if that count
\* has reached 0; while the token is cancelled the pending count is still the
\* number of finders in flight (plus one during start-up), and the task has
\* returned exactly when the last of them has been handled.
C23_CancelledFinderLikeAnyError ==
  /\ []((cancelled /\ phase \in {"starting", "running"}) =>
          /\ data.n_finders_pending =
               (IF phase = "starting" THEN 1 ELSE 0) + Cardinality(InFlight)
          /\ (task.n_returns = 1) = (phase = "running" /\ InFlight = {}))
  /\ [][\A f \in Finders :
          (cancelled /\ finder[f] = "returned" /\ finder'[f] = "failed") =>
             /\ \A g \in Finders \ {f} :
                   finder'[g] = finder[g] /\ finder_task'[g] = finder_task[g]
             /\ data'.n_finders_pending = data.n_finders_pending - 1
             /\ (task'.n_returns = 1) = (data'.n_finders_pending = 0)]_vars

C23_Witness ==
  /\ n_finders = 2
  /\ cancelled
  /\ phase = "running"
  /\ finder[1] = "failed"
  /\ finder[2] = "pending"
  /\ data.n_finders_pending = 1
  /\ task.n_returns = 0

\* A Result of OstreeRepoFinderMount: its remote is named by a file:// URI
\* (the remotes of the configuration have the names of ConfigRemoteNames).
IsMountResult(r) ==
  /\ Len(r.remote.name) >= Len(FileUri(<<>>))
  /\ SubSeq(r.remote.name, 1, Len(FileUri(<<>>))) = FileUri(<<>>)

\* C24: the Results of the Mount finder all have one priority and those of
\* the Config finder all have another, and in every list resolve_all returns
\* every Result of the Mount finder comes before every Result of the Config
\* finder.
C24_MountBeforeConfig ==
  /\ MountPriority # ConfigPriority
  /\ \A r \in ResultsHeld :
        r.priority = IF IsMountResult(r) THEN MountPriority ELSE ConfigPriority
  /\ (phase = "running" /\ outcome.kind = "ok") =>
        \A k, l \in 1..Len(outcome.results.pdata) :
           (IsMountResult(outcome.results.pdata[k])
            /\ ~IsMountResult(outcome.results.pdata[l])) => k < l

C24_Witness ==
  /\ phase = "running"
  /\ outcome.kind = "ok"
  /\ finders = <<"Config", "Mount">>
  /\ Len(outcome.results.pdata) >= 3
  /\ IsMountResult(outcome.results.pdata[1])
  /\ ~IsMountResult(outcome.results.pdata[Len(outcome.results.pdata)])

\* The finders of the call that are Mount (Config) finders and have run.
MountCalls == {f \in Finders : finders[f] = "Mount" /\ finder_task[f].n_returns = 1}
ConfigCalls == {f \in Finders : finders[f] = "Config" /\ finder_task[f].n_returns = 1}

\* The volume passes every check made before its refs are looked at.
PassesVolumeChecks(v) ==
  /\ v.drive /\ v.mount /\ v.removable
  /\ v.root_opens /\ v.repos_opens /\ v.fstat_ok

\* <mount root>/.ostree/repos/<ref> is a directory of the volume's own device.
IsRepoOnVolume(v, ref) ==
  /\ ref \in DOMAIN v.entries
  /\ v.entries[ref].stat_ok
  /\ v.entries[ref].is_dir
  /\ v.entries[ref].st_dev = v.st_dev

\* C25: a ref listed in a Result of the Mount finder resolves, on some volume,
\* to the Result's repository on the device of that volume's mount root (so a
\* ref whose directory is on another device is in no Result of the volume);
\* and every requested ref that does so on a volume passing the checks is in
\* the Result of its repository, whatever the other refs of the volume are.
C25_CrossDeviceExcluded ==
  \A f \in MountCalls :
     /\ \A r \in Range(finder_task[f].value.pdata) : \A ref \in r.ref_to_checksum :
           \E k \in 1..Len(volumes) :
              /\ ref \in DOMAIN volumes[k].entries
              /\ volumes[k].entries[ref].st_dev = volumes[k].st_dev
              /\ r.remote.name = FileUri(volumes[k].entries[ref].canonical)
     /\ \A k \in 1..Len(volumes) : \A ref \in Range(refs) :
           (PassesVolumeChecks(volumes[k]) /\ IsRepoOnVolume(volumes[k], ref)) =>
              \E r \in Range(finder_task[f].value.pdata) :
                 /\ r.remote.name = FileUri(volumes[k].entries[ref].canonical)
                 /\ ref \in r.ref_to_checksum

C25_Witness ==
  /\ outcome.kind = "ok"
  /\ finders = <<"Mount">>
  /\ Range(refs) = EnvRefs
  /\ Len(volumes) = 1
  /\ volumes[1].entries[RefName(1)].st_dev # volumes[1].st_dev
  /\ volumes[1].entries[RefName(1)].is_dir
  /\ Len(outcome.results.pdata) = 1
  /\ outcome.results.pdata[1].ref_to_checksum = {RefName(2)}

\* The requested refs that resolve to the repository named uri on a volume
\* of the call.
RefsResolvingTo(uri) ==
  {ref \in Range(refs) :
     \E k \in 1..Len(volumes) :
        /\ PassesVolumeChecks(volumes[k])
        /\ IsRepoOnVolume(volumes[k], ref)
        /\ FileUri(volumes[k].entries[ref].canonical) = uri}

\* C26: the array of one call of the Mount finder holds exactly one Result
\* for every file:// URI of a canonical path some requested ref resolved to
\* on the volumes of the call, and that Result lists every requested ref
\* that resolved to it (refs a and b linked to one repository give one
\* Result listing a and b).
C26_OneResultPerRepository ==
  \A f \in MountCalls :
     LET array == finder_task[f].value.pdata
     IN /\ \A k, l \in 1..Len(array) :
              array[k].remote.name = array[l].remote.name => k = l
        /\ \A r \in Range(array) :
              /\ RefsResolvingTo(r.remote.name) # {}
              /\ r.ref_to_checksum = RefsResolvingTo(r.remote.name)
        /\ \A k \in 1..Len(volumes) : \A ref \in Range(refs) :
              (PassesVolumeChecks(volumes[k]) /\ IsRepoOnVolume(volumes[k], ref)) =>
                 \E r \in Range(array) :
                    r.remote.name = FileUri(volumes[k].entries[ref].canonical)

\* The volume is removable, has a drive and a mount, and its .ostree/repos
\* directory can be opened.
SuitableVolume(v) == v.drive /\ v.mount /\ v.removable /\ v.repos_opens

\* C27: a call of the Mount finder does not fail whatever its volumes are;
\* every Result it returns comes from a volume that is removable, has a drive
\* and a mount and whose .ostree/repos directory opens; and the array is one
\* the call returns when the volumes failing one of these conditions are not
\* there at all.
C27_UnsuitableVolumesSkipped ==
  \A f \in MountCalls :
     /\ ~finder_task[f].error
     /\ ~finder_task[f].value.is_null
     /\ \A r \in Range(finder_task[f].value.pdata) :
           \E k \in 1..Len(volumes) :
              /\ SuitableVolume(volumes[k])
              /\ \E ref \in r.ref_to_checksum :
                    /\ ref \in DOMAIN volumes[k].entries
                    /\ r.remote.name = FileUri(volumes[k].entries[ref].canonical)
     /\ finder_task[f].value \in
           ostree_repo_finder_mount_resolve_async(SelectSeq(volumes, SuitableVolume), refs)

C27_Witness ==
  /\ outcome.kind = "ok"
  /\ finders = <<"Mount">>
  /\ Len(volumes) = 2
  /\ ~volumes[1].removable
  /\ SuitableVolume(volumes[2])
  /\ Len(outcome.results.pdata) = 1
  /\ outcome.results.pdata[1].ref_to_checksum = EnvRefs

\* C28: a resolve call on the Mount finder fails exactly when its token has
\* been cancelled: the finder's own task never holds an error, whatever the
\* volumes and refs are; the caller of ostree_repo_finder_resolve_finish gets
\* a Cancelled failure and no list when the token is cancelled, a list when
\* it is not; and under resolve_all a Mount finder is only ever seen to fail
\* with the token cancelled.
C28_MountFailsIffCancelled ==
  /\ \A f \in Finders :
        finders[f] = "Mount" =>
           /\ ~finder_task[f].error
           /\ finder[f] = "failed" => cancelled
  /\ (phase = "one" /\ finders[1] = "Mount" /\ outcome.kind # "none") =>
        /\ (outcome.kind = "error") = cancelled
        /\ cancelled => outcome = CancelledOutcome
        /\ ~cancelled => (outcome.kind = "ok" /\ outcome.results = finder_task[1].value)

C28_Witness ==
  /\ phase = "one"
  /\ finders[1] = "Mount"
  /\ cancelled
  /\ outcome = CancelledOutcome
  /\ finder[1] = "succeeded"
  /\ Len(finder_task[1].value.pdata) = 2

\* The requested refs a configured remote advertises (none when its ref list
\* cannot be loaded).
Intersection(remote) ==
  IF remote.refs_ok THEN remote.remote_refs \cap Range(refs) ELSE {}

\* The Results of the array that are named name.
NamedIn(array, name) == {k \in 1..Len(array) : array[k].remote.name = name}

\* C29: the array of a call of the Config finder holds exactly one Result for
\* every configured remote that advertises some requested ref, listing
\* exactly the requested refs the remote advertises, and no Result for any
\* other remote.
C29_OneResultPerMatchingRemote ==
  \A f \in ConfigCalls :
     LET array == finder_task[f].value.pdata
     IN /\ \A k \in 1..Len(remotes) :
              IF Intersection(remotes[k]) # {}
                THEN /\ Cardinality(NamedIn(array, remotes[k].name)) = 1
                     /\ \A l \in NamedIn(array, remotes[k].name) :
                           array[l].ref_to_checksum = Intersection(remotes[k])
                ELSE NamedIn(array, remotes[k].name) = {}
        /\ \A l \in 1..Len(array) :
              \E k \in 1..Len(remotes) : remotes[k].name = array[l].remote.name

\* C29, amended: the same for the configured remotes whose configuration
\* _ostree_repo_get_remote_inherited finds; a remote whose configuration is
\* not found gets no Result, whatever it advertises.
C29_OneResultPerResolvableMatchingRemote ==
  \A f \in ConfigCalls :
     LET array == finder_task[f].value.pdata
     IN /\ \A k \in 1..Len(remotes) :
              IF Intersection(remotes[k]) # {} /\ remotes[k].inherited_ok
                THEN /\ Cardinality(NamedIn(array, remotes[k].name)) = 1
                     /\ \A l \in NamedIn(array, remotes[k].name) :
                           array[l].ref_to_checksum = Intersection(remotes[k])
                ELSE NamedIn(array, remotes[k].name) = {}
        /\ \A l \in 1..Len(array) :
              \E k \in 1..Len(remotes) : remotes[k].name = array[l].remote.name

C29_Witness ==
  /\ outcome.kind = "ok"
  /\ finders = <<"Config">>
  /\ Range(refs) = EnvRefs
  /\ Len(remotes) = 2
  /\ Intersection(remotes[1]) = EnvRefs /\ remotes[1].inherited_ok
  /\ Intersection(remotes[2]) = EnvRefs /\ ~remotes[2].inherited_ok
  /\ Len(outcome.results.pdata) = 1
  /\ outcome.results.pdata[1].remote.name = remotes[1].name
  /\ outcome.results.pdata[1].ref_to_checksum = EnvRefs

\* ostree_repo_remote_list_refs succeeds for the remote.
RefsAvailable(remote) == remote.refs_ok

\* C30: a call of the Config finder does not fail when the ref list of a
\* configured remote cannot be loaded; that remote gets no Result, and the
\* array is one the call returns when the remotes whose ref lists cannot be
\* loaded are not configured at all.
C30_UnavailableRemoteSkipped ==
  \A f \in ConfigCalls :
     /\ ~finder_task[f].error
     /\ ~finder_task[f].value.is_null
     /\ \A k \in 1..Len(remotes) :
           ~RefsAvailable(remotes[k]) =>
              NamedIn(finder_task[f].value.pdata, remotes[k].name) = {}
     /\ finder_task[f].value \in
           ostree_repo_finder_config_resolve_async(SelectSeq(remotes, RefsAvailable), refs)

C30_Witness ==
  /\ outcome.kind = "ok"
  /\ finders = <<"Config">>
  /\ Len(remotes) = 2
  /\ ~RefsAvailable(remotes[1])
  /\ RefsAvailable(remotes[2])
  /\ Len(outcome.results.pdata) = 1
  /\ outcome.results.pdata[1].remote.name = remotes[2].name

\* ----------------------------------------------------------------- C31
\* What a call on the finder at position f returns when it is the only call
\* made on that instance, against the volumes and remotes of this state.
ReturnsAlone(f) ==
  IF finders[f] = "Mount"
    THEN {GPtrArray(results) : results \in mount_results(volumes, refs)}
    ELSE {GPtrArray(config_aggregate(order, config_repo_name_to_refs(remotes, refs),
                                     remotes)) :
            order \in HashTableIterOrders(DOMAIN config_repo_name_to_refs(remotes, refs))}

C32_OneTerminalOutcome ==
  phase = "one" =>
    /\ finder_task[1].n_returns = 1
    /\ \A f \in Finders \ {1} : finder[f] = "idle" /\ finder_task[f].n_returns = 0
    /\ task.n_returns <= 1
    /\ (task.n_returns = 1) = (finder[1] \in {"succeeded", "failed"})
    /\ (resolve_finish(finder_task[1], cancelled).kind = "error")
         # (~resolve_finish(finder_task[1], cancelled).results.is_null)
    /\ finder[1] = "failed" => task.error /\ task.value = NULL
    /\ finder[1] = "succeeded" =>
         ~task.error /\ ~task.value.is_null /\ task.value = finder_task[1].value
    /\ (outcome.kind = "error") # (~outcome.results.is_null) \/ outcome.kind = "none"
    /\ outcome.kind = "ok" =>
         finder[1] = "succeeded" /\ outcome.results = finder_task[1].value
    /\ outcome.kind = "error" => finder[1] = "failed" \/ cancelled

\* Both outcomes are delivered: this one is the finder's list.
C32_Witness ==
  /\ phase = "one"
  /\ finder[1] = "succeeded"
  /\ outcome.kind = "ok"
  /\ outcome.results.pdata # <<>>

\* ----------------------------------------------------------------- C33
\* C33: every directory descriptor the Mount finder opens while probing a
\* volume (the mount root, its .ostree/repos) is closed when the probe of
\* that volume ends, however it ends: no volume's probe leaves one open, and
\* after every call as many descriptors are open as before it.
C33_DescriptorsClosed ==
  /\ open_fds = 0
  /\ \A f \in MountCalls : \A k \in 1..Len(volumes) :
       /\ mount_volume_open_fds(volumes[k]) = 0
       /\ glnx_cleanup_close_fdp(mount_volume_dfds(volumes[k]).mount_root_dfd) = 1
            <=> (volumes[k].drive /\ volumes[k].mount /\ volumes[k].removable
                 /\ volumes[k].root_opens)

\* A call that skipped a volume with its mount root open (.ostree/repos could
\* not be opened) and one that probed a volume to the end.
C33_Witness ==
  /\ MountCalls # {}
  /\ open_fds = 0
  /\ \E k \in 1..Len(volumes) :
       /\ mount_volume_dfds(volumes[k]).mount_root_dfd # -1
       /\ mount_volume_dfds(volumes[k]).repos_dfd = -1

\* ----------------------------------------------------------------- C34
\* C34: the resolve call of every finder of the list has been issued before
\* the result of resolve_all is delivered, also when a finder completes
\* inside its own resolve call.
C34_AllIssuedBeforeDelivery ==
  Delivered => \A f \in Finders : finder[f] # "idle"

\* ----------------------------------------------------------------- C35
\* C35: the find-remotes command given no REF returns failure and has not
\* started a resolution; when the resolution yields an empty list it prints
\* "No results." and nothing else and returns success; when it yields Results
\* it prints one block per Result, in their order, and returns success.
C35_CliOutput ==
  /\ cli.pc # "idle" /\ cli.argc < 2 =>
       /\ ~cli.started
       /\ cli.pc = "returned" => cli.ret = "FALSE" /\ cli.stdout = <<>>
  /\ cli.pc = "returned" /\ cli.find_result.done /\ ~cli.find_result.error =>
       /\ cli.ret = "TRUE"
       /\ cli.find_result.results = <<>> =>
            cli.stdout = <<[line |-> "No results.", index |-> 0]>>
       /\ cli.find_result.results # <<>> =>
            /\ Len(cli.stdout) = Len(cli.find_result.results)
            /\ \A k \in 1..Len(cli.stdout) :
                 cli.stdout[k] = [line |-> "Result", index |-> k - 1]

\* The command has returned success after an empty list, "No results." printed.
C35_Witness ==
  /\ cli.pc = "returned"
  /\ cli.argc >= 2
  /\ cli.find_result.done
  /\ ~cli.find_result.error
  /\ cli.find_result.results = <<>>
  /\ cli.ret = "TRUE"
  /\ Len(cli.stdout) = 1

\* ----------------------------------------------------------------- C36
\* The task of the call is finalized, and resolve_all_data_free runs on its
\* data, when the last reference to it is dropped: resolve_all_async has
\* returned, every finder callback has run (each held a reference), and the
\* caller's callback has been dispatched.
DataFreed ==
  /\ phase = "running"
  /\ AllHandled
  /\ outcome.kind # "none"

\* C36: while a resolve_all call is under way, n_finders_pending is 1 during
\* the start-up loop (0 after it) plus the finder calls issued minus the
\* finder completions handled; it never goes below zero; it is zero exactly
\* when the result has been delivered; and it is zero when the session data
\* is freed.
C36_PendingCount ==
  phase \in {"starting", "running"} =>
    /\ data.n_finders_pending =
         (IF phase = "starting" THEN 1 ELSE 0)
         + Cardinality({f \in Finders : finder[f] # "idle"})
         - Cardinality({f \in Finders : finder[f] \in {"succeeded", "failed"}})
    /\ data.n_finders_pending >= 0
    /\ (data.n_finders_pending = 0) = (task.n_returns = 1)
    /\ task.n_returns \in {0, 1}
    /\ DataFreed => data.n_finders_pending = 0

\* The data is freed with the count at zero after two finders were issued and
\* their completions handled.
C36_Witness ==
  /\ DataFreed
  /\ n_finders = 2
  /\ data.n_finders_pending = 0
  /\ finder[1] = "succeeded"
  /\ finder[2] = "failed"

\* ----------------------------------------------------------------- C37
\* C37: for Results of different priorities, whatever the two priorities in
\* the range of a gint, the comparator's return value has the sign of the
\* comparison of the priorities.
C37_PrioritySign ==
  cmp_ret.called /\ cmp_a.priority # cmp_b.priority =>
     /\ (cmp_ret.ab < 0) = (cmp_a.priority < cmp_b.priority)
     /\ (cmp_ret.ab > 0) = (cmp_a.priority > cmp_b.priority)

\* ----------------------------------------------------------------- C38
\* C38: the comparator is antisymmetric and reflexive: compare(a, b) and
\* compare(b, a) have opposite signs or are both 0, and compare(a, a) is 0.
C38_Antisymmetric ==
  cmp_ret.called =>
     /\ (cmp_ret.ab < 0) = (cmp_ret.ba > 0)
     /\ (cmp_ret.ab > 0) = (cmp_ret.ba < 0)
     /\ cmp_ret.aa = 0

\* ----------------------------------------------------------------- C39
\* The supported_refs arrays that the call of the finder at position f hands
\* to ostree_repo_finder_result_new, one for each Result it emits.
SupportedRefsHanded(f) ==
  IF finders[f] = "Mount"
    THEN UNION {{mount_repo_uri_to_refs(volumes[k], refs)[uri] :
                   uri \in DOMAIN mount_repo_uri_to_refs(volumes[k], refs)} :
                k \in {l \in 1..Len(volumes) : mount_volume_usable(volumes[l])}}
    ELSE {config_repo_name_to_refs(remotes, refs)[name] :
            name \in {n \in DOMAIN config_repo_name_to_refs(remotes, refs) :
                        RemoteNamed(remotes, n).inherited_ok}}

\* C39: every Result the Mount or the Config finder emits lists each ref at
\* most once, also when the request names a ref more than once: no list of
\* refs a finder emits a Result with holds the same ref at two places.
C39_EachRefListedOnce ==
  \A f \in MountCalls \cup ConfigCalls :
    \A supported_refs \in SupportedRefsHanded(f) :
      \A j, k \in 1..Len(supported_refs) :
        supported_refs[j] = supported_refs[k] => j = k

====
